---- MODULE Spec2Model ----
(***************************************************************************)
(* Model of Sources/CZlib/include/CNIOExtrasZlib.h: the two inline shims   *)
(* CZlib_inflateInit2 and CZlib_voidPtr_to_BytefPtr, called by the threads *)
(* of the host binding layer.                                              *)
(*                                                                         *)
(* The header includes <zlib.h>; zlib itself is an external library.  Its  *)
(* inflateInit2 macro and inflateInit2_ / inflateReset2 routines are       *)
(* modelled as zlib.h documents them (version check, null check, state     *)
(* allocation, windowBits validation), both as the steps a running call    *)
(* takes and as the result of one call run alone.                          *)
(***************************************************************************)
EXTENDS Integers, Sequences, FiniteSets, TLC

\* bounds of the model: bytes per caller buffer, calls per run
BufLen == 2
MaxCalls == 2

Z_NULL == 0
Z_OK == 0
Z_STREAM_ERROR == -2
Z_MEM_ERROR == -4
Z_VERSION_ERROR == -6

None == "none"

\* the calling threads and the z_stream objects they own (by address)
Threads == {1, 2}
Handles == {1, 2}
Bytes == {0, 1}
MemSize == Cardinality(Threads) * BufLen
Addresses == 1 .. MemSize

\* windowBits values the callers pass: the specification's examples and the
\* edges of the library's ranges
WindowBitsValues == {-16, -15, 0, 7, 15, 31, 47, 100}

StatusCodes == {Z_OK, Z_STREAM_ERROR, Z_MEM_ERROR, Z_VERSION_ERROR}

\* version string of the zlib.h the shim is compiled against, and the
\* versions of the library a build may link
ZLIB_VERSION == <<1, 2, 13>>
LinkedVersions == {<<1, 3, 1>>, <<2, 0, 0>>}
SizeofZStream == "sizeof(z_stream)"

VARIABLES
    handles,      \* the callers' z_stream objects: msg, zalloc, state
    mem,          \* the callers' buffers, byte by byte
    thr,          \* per thread: the call it is in and what it last returned
    zlibVersion,  \* version of the linked zlib
    ncalls        \* calls made so far

vars == <<handles, mem, thr, zlibVersion, ncalls>>

------------------------------------------------------------------------------
(* zlib *)

\* #define inflateInit2(strm, windowBits) inflateInit2_((strm), (windowBits),
\*     ZLIB_VERSION, (int)sizeof(z_stream))
inflateInit2(strm, windowBits) ==
    [strm |-> strm, windowBits |-> windowBits,
     version |-> ZLIB_VERSION, stream_size |-> SizeofZStream]

\* inflateInit2_: version[0] != ZLIB_VERSION[0] || stream_size != sizeof(z_stream)
VersionMismatch(frame) ==
    \/ frame.version[1] # zlibVersion[1]
    \/ frame.stream_size # SizeofZStream

\* inflateReset2: wrap request and window size extracted from windowBits
WrapOf(windowBits) ==
    IF windowBits < 0 THEN 0 ELSE (windowBits \div 16) + 5

WbitsOf(windowBits) ==
    IF windowBits < 0 THEN -windowBits
    ELSE IF windowBits < 48 THEN windowBits % 16
    ELSE windowBits

AcceptedWindowBits(windowBits) ==
    /\ windowBits >= -15
    /\ WbitsOf(windowBits) = 0 \/ (WbitsOf(windowBits) >= 8 /\ WbitsOf(windowBits) <= 15)

\* strm->state: no inflate_state (a null pointer), the inflate_state
\* inflateInit2_ has allocated, and the one inflateReset2 has filled
NullState == [allocated |-> FALSE, reset |-> FALSE, wrap |-> 0, wbits |-> 0]

AllocatedState == [allocated |-> TRUE, reset |-> FALSE, wrap |-> 0, wbits |-> 0]

ResetState(windowBits) ==
    [allocated |-> TRUE, reset |-> TRUE,
     wrap |-> WrapOf(windowBits), wbits |-> WbitsOf(windowBits)]

\* strm->msg = Z_NULL; if (strm->zalloc == 0) strm->zalloc = zcalloc
Prepared(z) ==
    [z EXCEPT !.msg = "Z_NULL",
              !.zalloc = IF z.zalloc = "Z_NULL" THEN "zcalloc" ELSE z.zalloc]

\* one inflateInit2_ call run alone on a z_stream holding z (or on a null
\* strm), with allocOk the allocator's answer: the status and what the
\* z_stream holds afterwards
inflateInit2_(z, frame, allocOk) ==
    IF VersionMismatch(frame) THEN [status |-> Z_VERSION_ERROR, strm |-> z]
    ELSE IF frame.strm = Z_NULL THEN [status |-> Z_STREAM_ERROR, strm |-> z]
    ELSE IF ~allocOk THEN [status |-> Z_MEM_ERROR, strm |-> Prepared(z)]
    ELSE IF ~AcceptedWindowBits(frame.windowBits)
         THEN [status |-> Z_STREAM_ERROR,
               strm |-> [Prepared(z) EXCEPT !.state = NullState]]
    ELSE [status |-> Z_OK,
          strm |-> [Prepared(z) EXCEPT !.state = ResetState(frame.windowBits)]]

------------------------------------------------------------------------------
(* the shim *)

\* Variants of the shim with a slip in them, for the sensitivity checks of
\* the properties below.
\* ... initialises with the default window, as inflateInit does
CZlib_inflateInit2_default(strm, windowBits) ==
    inflateInit2(strm, 15)

\* ... validates windowBits itself and clamps it into range
CZlib_inflateInit2_clamped(strm, windowBits) ==
    inflateInit2(strm, IF windowBits > 47 THEN 47 ELSE windowBits)

\* ... re-initialises an initialised stream with the configuration it has
CZlib_inflateInit2_keep(strm, windowBits) ==
    IF strm # Z_NULL /\ handles[strm].state.reset
    THEN inflateInit2(strm, IF handles[strm].state.wrap = 0
                            THEN -handles[strm].state.wbits
                            ELSE (handles[strm].state.wrap - 5) * 16
                                 + handles[strm].state.wbits)
    ELSE inflateInit2(strm, windowBits)

\* ... initialises one global stream whatever it is passed
CZlib_inflateInit2_global(strm, windowBits) ==
    inflateInit2(1, windowBits)

\* ... negates windowBits
CZlib_inflateInit2_negated(strm, windowBits) ==
    inflateInit2(strm, -windowBits)

\* ... returns a pointer one byte further
CZlib_voidPtr_to_BytefPtr_offset(in) ==
    [addr |-> in.addr + 1, type |-> "Bytef"]

\* ... null-checks, and returns a pointer to a static byte for a null input
CZlib_voidPtr_to_BytefPtr_nonnull(in) ==
    [addr |-> IF in.addr = Z_NULL THEN 1 ELSE in.addr, type |-> "Bytef"]

\* static inline int CZlib_inflateInit2(z_streamp strm, int windowBits):
\* the library call its body makes
CZlib_inflateInit2(strm, windowBits) ==
    inflateInit2(strm, windowBits)

\* static inline Bytef *CZlib_voidPtr_to_BytefPtr(void *in)
CZlib_voidPtr_to_BytefPtr(in) ==
    [addr |-> in.addr, type |-> "Bytef"]

------------------------------------------------------------------------------
(* state *)

VoidPtrs == [addr : Addresses \cup {Z_NULL}, type : {"void"}]

\* the buffer thread t owns
Buf(t) == ((t - 1) * BufLen + 1) .. (t * BufLen)

\* what a call on a null strm has as its z_stream: nothing
NoStream == [msg |-> "Z_NULL", zalloc |-> "Z_NULL", state |-> NullState]

\* a z_stream as its caller hands it over the first time: zeroed, or with
\* the caller's allocator set and msg never written
ZeroedStream == [msg |-> "Z_NULL", zalloc |-> "Z_NULL", state |-> NullState]

CallerStream == [msg |-> "garbage", zalloc |-> "custom", state |-> NullState]

NoPtr == [addr |-> Z_NULL, type |-> "none"]

NoFrame == [strm |-> Z_NULL, windowBits |-> 0, version |-> <<>>, stream_size |-> None]

IdleThread ==
    [pc |-> "idle", strm |-> Z_NULL, windowBits |-> 0,
     frame |-> NoFrame, libcalls |-> <<>>, allocOk |-> TRUE, libret |-> 0,
     ret |-> 0, pre |-> NoStream, post |-> NoStream, overlap |-> FALSE,
     in |-> NoPtr, out |-> NoPtr, written |-> <<>>, readback |-> <<>>]

InCall(t) == thr[t].pc \in {"lib_entry", "lib_alloc", "lib_reset", "lib_done"}

CanCall(t) == ~InCall(t) /\ ncalls < MaxCalls

Contents(strm) == IF strm = Z_NULL THEN NoStream ELSE handles[strm]

Init ==
    /\ handles = [h \in Handles |-> IF h = 1 THEN ZeroedStream ELSE CallerStream]
    /\ mem = [a \in Addresses |-> a % 2]
    /\ thr = [t \in Threads |-> IdleThread]
    /\ zlibVersion \in LinkedVersions
    /\ ncalls = 0

------------------------------------------------------------------------------
(* a caller calls CZlib_inflateInit2(strm, windowBits) *)

\* entry: the body's call expression is evaluated and zlib's inflateInit2_
\* is entered with what the shim passes.  A caller does not hand a z_stream
\* to two calls at once.
CZlib_inflateInit2_Call(t, strm, windowBits) ==
    /\ CanCall(t)
    /\ strm # Z_NULL => \A u \in Threads \ {t} : ~(InCall(u) /\ thr[u].frame.strm = strm)
    /\ thr' = [u \in Threads |->
                 IF u = t
                 THEN [IdleThread EXCEPT
                         !.pc = "lib_entry",
                         !.strm = strm,
                         !.windowBits = windowBits,
                         !.frame = CZlib_inflateInit2(strm, windowBits),
                         !.libcalls = <<CZlib_inflateInit2(strm, windowBits)>>,
                         !.pre = Contents(strm),
                         !.overlap = \E v \in Threads \ {t} : InCall(v)]
                 ELSE IF InCall(u) THEN [thr[u] EXCEPT !.overlap = TRUE]
                 ELSE thr[u]]
    /\ ncalls' = ncalls + 1
    /\ UNCHANGED <<handles, mem, zlibVersion>>

\* inflateInit2_: version and null checks, then msg and the allocator fields
inflateInit2_Check(t) ==
    /\ thr[t].pc = "lib_entry"
    /\ IF VersionMismatch(thr[t].frame)
       THEN /\ thr' = [thr EXCEPT ![t].pc = "lib_done", ![t].libret = Z_VERSION_ERROR]
            /\ UNCHANGED handles
       ELSE IF thr[t].frame.strm = Z_NULL
       THEN /\ thr' = [thr EXCEPT ![t].pc = "lib_done", ![t].libret = Z_STREAM_ERROR]
            /\ UNCHANGED handles
       ELSE /\ thr' = [thr EXCEPT ![t].pc = "lib_alloc"]
            /\ handles' = [handles EXCEPT ![thr[t].frame.strm] = Prepared(@)]
    /\ UNCHANGED <<mem, zlibVersion, ncalls>>

\* inflateInit2_: state = ZALLOC(...); the allocator may have no memory
inflateInit2_Alloc(t) ==
    /\ thr[t].pc = "lib_alloc"
    /\ \E ok \in BOOLEAN :
         IF ok
         THEN /\ thr' = [thr EXCEPT ![t].pc = "lib_reset", ![t].allocOk = TRUE]
              /\ handles' = [handles EXCEPT ![thr[t].frame.strm].state = AllocatedState]
         ELSE /\ thr' = [thr EXCEPT ![t].pc = "lib_done", ![t].allocOk = FALSE,
                                    ![t].libret = Z_MEM_ERROR]
              /\ UNCHANGED handles
    /\ UNCHANGED <<mem, zlibVersion, ncalls>>

\* inflateInit2_: ret = inflateReset2(strm, windowBits); on failure the
\* state is freed and strm->state is Z_NULL
inflateInit2_Reset(t) ==
    /\ thr[t].pc = "lib_reset"
    /\ IF AcceptedWindowBits(thr[t].frame.windowBits)
       THEN /\ thr' = [thr EXCEPT ![t].pc = "lib_done", ![t].libret = Z_OK]
            /\ handles' = [handles EXCEPT ![thr[t].frame.strm].state =
                                              ResetState(thr[t].frame.windowBits)]
       ELSE /\ thr' = [thr EXCEPT ![t].pc = "lib_done", ![t].libret = Z_STREAM_ERROR]
            /\ handles' = [handles EXCEPT ![thr[t].frame.strm].state = NullState]
    /\ UNCHANGED <<mem, zlibVersion, ncalls>>

\* Variants of the return with a slip in them.
\* ... collapses the status to 0 / -1
CZlib_inflateInit2_Return_mapped(t) ==
    /\ thr[t].pc = "lib_done"
    /\ thr' = [thr EXCEPT ![t].pc = "returned",
                          ![t].ret = IF thr[t].libret = Z_OK THEN 0 ELSE -1,
                          ![t].post = Contents(thr[t].strm)]
    /\ UNCHANGED <<handles, mem, zlibVersion, ncalls>>

\* ... keeps the status in a static int, which another thread's call that
\* has come back from the library may have overwritten
CZlib_inflateInit2_Return_static(t) ==
    /\ thr[t].pc = "lib_done"
    /\ \E u \in Threads :
         /\ u = t \/ thr[u].pc = "lib_done"
         /\ thr' = [thr EXCEPT ![t].pc = "returned",
                               ![t].ret = thr[u].libret,
                               ![t].post = Contents(thr[t].strm)]
    /\ UNCHANGED <<handles, mem, zlibVersion, ncalls>>

\* return inflateInit2(strm, windowBits);
CZlib_inflateInit2_Return(t) ==
    /\ thr[t].pc = "lib_done"
    /\ thr' = [thr EXCEPT ![t].pc = "returned",
                          ![t].ret = thr[t].libret,
                          ![t].post = Contents(thr[t].strm)]
    /\ UNCHANGED <<handles, mem, zlibVersion, ncalls>>

------------------------------------------------------------------------------
(* a caller calls CZlib_voidPtr_to_BytefPtr(in), writes through the result *)
(* and reads back through in                                               *)

CZlib_voidPtr_to_BytefPtr_Call(t, in) ==
    /\ CanCall(t)
    /\ thr' = [thr EXCEPT ![t] = [IdleThread EXCEPT
                                    !.pc = "cast",
                                    !.in = in,
                                    !.out = CZlib_voidPtr_to_BytefPtr(in)]]
    /\ ncalls' = ncalls + 1
    /\ UNCHANGED <<handles, mem, zlibVersion>>

\* the caller stores the bytes of data through the Bytef pointer it got;
\* it passed a pointer into its own buffer with room for them
WriteThrough(t, data) ==
    /\ thr[t].pc = "cast"
    /\ thr[t].in.addr \in Buf(t)
    /\ thr[t].in.addr + Len(data) - 1 \in Buf(t)
    /\ mem' = [a \in Addresses |->
                 IF a >= thr[t].out.addr /\ a < thr[t].out.addr + Len(data)
                 THEN data[a - thr[t].out.addr + 1]
                 ELSE mem[a]]
    /\ thr' = [thr EXCEPT ![t].pc = "written", ![t].written = data]
    /\ UNCHANGED <<handles, zlibVersion, ncalls>>

\* the caller loads as many bytes through the void pointer it passed
ReadBack(t) ==
    /\ thr[t].pc = "written"
    /\ thr' = [thr EXCEPT ![t].pc = "readback",
                          ![t].readback = [i \in 1 .. Len(thr[t].written) |->
                                             mem[thr[t].in.addr + i - 1]]]
    /\ UNCHANGED <<handles, mem, zlibVersion, ncalls>>

------------------------------------------------------------------------------

DataValues == UNION {[1 .. n -> Bytes] : n \in 1 .. BufLen}

\* callers initialising inflate streams and retyping pointers
Next ==
    \/ \E t \in Threads, strm \in Handles \cup {Z_NULL}, windowBits \in WindowBitsValues :
         CZlib_inflateInit2_Call(t, strm, windowBits)
    \/ \E t \in Threads : inflateInit2_Check(t)
    \/ \E t \in Threads : inflateInit2_Alloc(t)
    \/ \E t \in Threads : inflateInit2_Reset(t)
    \/ \E t \in Threads : CZlib_inflateInit2_Return(t)
    \/ \E t \in Threads, in \in VoidPtrs : CZlib_voidPtr_to_BytefPtr_Call(t, in)

Spec == Init /\ [][Next]_vars

\* callers retyping pointers into their buffers and using the result
NextBuf ==
    \/ \E t \in Threads, in \in VoidPtrs : CZlib_voidPtr_to_BytefPtr_Call(t, in)
    \/ \E t \in Threads, data \in DataValues : WriteThrough(t, data)
    \/ \E t \in Threads : ReadBack(t)

SpecBuf == Init /\ [][NextBuf]_vars

------------------------------------------------------------------------------
(* properties *)

Returned(t) == thr[t].pc = "returned"

\* what the library's inflateInit2, called directly with the arguments
\* thread t passed to the shim, does to the z_stream as it was at the call
Direct(t) ==
    inflateInit2_(thr[t].pre, inflateInit2(thr[t].strm, thr[t].windowBits),
                  thr[t].allocOk)

\* C1: for a valid handle and a windowBits value the library accepts, the
\* shim returns the status of the direct library call with the same
\* arguments and leaves the handle as that call leaves it.
C1_SameAsDirect ==
    \A t \in Threads :
        (Returned(t) /\ thr[t].strm \in Handles
                     /\ AcceptedWindowBits(thr[t].windowBits))
        => /\ thr[t].ret = Direct(t).status
           /\ thr[t].post = Direct(t).strm

C1_Witness ==
    \E t \in Threads :
        /\ Returned(t)
        /\ thr[t].strm \in Handles
        /\ thr[t].windowBits = 47
        /\ thr[t].ret = Z_OK
        /\ thr[t].post.state = ResetState(47)

\* C2 as stated: for windowBits 0 or 100 the shim returns a non-zero status.
C2_ZeroAndHundredRejected ==
    \A t \in Threads :
        (Returned(t) /\ thr[t].windowBits \in {0, 100}) => thr[t].ret # Z_OK

\* C2, amended: for a windowBits value outside the library's accepted range
\* (100, 7, -16; 0 is inside it) the shim returns the library's error
\* status, which is non-zero, and a call in progress always has a next step.
C2_InvalidWindowBitsRejected ==
    \A t \in Threads :
        /\ (Returned(t) /\ ~AcceptedWindowBits(thr[t].windowBits))
           => /\ thr[t].ret \in StatusCodes \ {Z_OK}
              /\ thr[t].ret = thr[t].libret
        /\ InCall(t)
           => ENABLED (\/ inflateInit2_Check(t) \/ inflateInit2_Alloc(t)
                       \/ inflateInit2_Reset(t) \/ CZlib_inflateInit2_Return(t))

C2_Witness ==
    \E t \in Threads :
        /\ Returned(t)
        /\ thr[t].strm \in Handles
        /\ thr[t].windowBits = 100
        /\ thr[t].allocOk
        /\ thr[t].ret = Z_STREAM_ERROR

\* C3: bytes written through CZlib_voidPtr_to_BytefPtr(p) are read back
\* unchanged through p: the result designates the address of its input.
C3_RoundTrip ==
    \A t \in Threads :
        thr[t].pc = "readback"
        => /\ thr[t].readback = thr[t].written
           /\ thr[t].out.addr = thr[t].in.addr

C3_Witness ==
    \E t \in Threads :
        /\ thr[t].pc = "readback"
        /\ Len(thr[t].written) = BufLen
        /\ thr[t].readback = thr[t].written
        /\ \E i \in 1 .. BufLen : thr[t].written[i] # (thr[t].in.addr + i - 1) % 2

\* C4: a call on a handle that an earlier call initialised re-initialises
\* it: status and resulting handle are those of the direct call on the
\* handle as it is, a success leaves the state this call's windowBits
\* selects, and two calls with the same windowBits and allocator answer end
\* with the same status, and when that is success with the same state,
\* whatever came before them.  (A call the library fails before or at its
\* allocation leaves strm->state as the handle had it at the call.)
C4_Reinitialises ==
    /\ \A t \in Threads :
        (Returned(t) /\ thr[t].strm \in Handles /\ thr[t].pre.state.reset)
        => /\ thr[t].ret = Direct(t).status
           /\ thr[t].post = Direct(t).strm
           /\ thr[t].ret = Z_OK => thr[t].post.state = ResetState(thr[t].windowBits)
    /\ \A t, u \in Threads :
        (/\ Returned(t) /\ Returned(u)
         /\ thr[t].strm \in Handles /\ thr[u].strm \in Handles
         /\ thr[t].windowBits = thr[u].windowBits
         /\ thr[t].allocOk = thr[u].allocOk)
        => /\ thr[t].ret = thr[u].ret
           /\ thr[t].ret = Z_OK => thr[t].post.state = thr[u].post.state

C4_Witness ==
    \E t \in Threads :
        /\ Returned(t)
        /\ thr[t].strm \in Handles
        /\ thr[t].pre.state.reset
        /\ thr[t].pre.state # ResetState(thr[t].windowBits)
        /\ thr[t].ret = Z_OK
        /\ thr[t].post.state = ResetState(thr[t].windowBits)

\* C5: the shim returns exactly the status the library routine returned,
\* one of zlib's codes.
C5_StatusVerbatim ==
    \A t \in Threads :
        Returned(t) => /\ thr[t].ret = thr[t].libret
                       /\ thr[t].ret \in StatusCodes

C5_Witness ==
    \E t, u \in Threads :
        /\ Returned(t) /\ thr[t].libret = Z_MEM_ERROR /\ thr[t].ret = Z_MEM_ERROR
        /\ Returned(u) /\ thr[u].libret = Z_STREAM_ERROR /\ thr[u].ret = Z_STREAM_ERROR

\* C6: a CZlib_voidPtr_to_BytefPtr call returns the address it was given, a
\* null one included, and changes no buffer, no handle and no other thread.
C6_CastNoSideEffect ==
    [][\A t \in Threads, in \in VoidPtrs :
         CZlib_voidPtr_to_BytefPtr_Call(t, in)
         => /\ thr'[t].out.addr = in.addr
            /\ thr'[t].out.type = "Bytef"
            /\ mem' = mem
            /\ handles' = handles
            /\ zlibVersion' = zlibVersion
            /\ \A u \in Threads \ {t} : thr'[u] = thr[u]]_vars

C6_Witness ==
    \E t \in Threads :
        /\ thr[t].pc = "cast"
        /\ thr[t].in.addr = Z_NULL
        /\ thr[t].out.addr = Z_NULL
        /\ \E a \in Addresses : mem[a] # a % 2

\* C7: a step changes a handle only while a CZlib_inflateInit2 call passed
\* that handle is in progress, and changes no buffer.
C7_OnlyItsHandle ==
    [][/\ \A h \in Handles :
            handles'[h] # handles[h]
            => \E t \in Threads : InCall(t) /\ thr[t].strm = h
       /\ mem' = mem]_vars

C7_Witness ==
    \E t \in Threads :
        /\ Returned(t)
        /\ thr[t].strm = 2
        /\ thr[t].ret = Z_OK
        /\ handles[2].state.reset
        /\ handles[1] = ZeroedStream

\* C8: a call that ran while another thread's call was in progress returns
\* the status, and leaves its handle in the state, of the same call run alone.
C8_NoInterference ==
    \A t \in Threads :
        (Returned(t) /\ thr[t].overlap)
        => /\ thr[t].ret = Direct(t).status
           /\ thr[t].post = Direct(t).strm

C8_Witness ==
    \E t, u \in Threads :
        /\ t # u
        /\ Returned(t) /\ Returned(u)
        /\ thr[t].overlap /\ thr[u].overlap
        /\ thr[t].strm \in Handles /\ thr[u].strm \in Handles
        /\ thr[t].ret = Z_OK
        /\ thr[u].ret = Z_MEM_ERROR

\* C9: a CZlib_inflateInit2 call has invoked the library routine once, with
\* the handle and the windowBits it received; a CZlib_voidPtr_to_BytefPtr
\* call has not invoked the library.
C9_OneCallSameArguments ==
    \A t \in Threads :
        /\ (InCall(t) \/ Returned(t))
           => /\ Len(thr[t].libcalls) = 1
              /\ thr[t].libcalls[1].strm = thr[t].strm
              /\ thr[t].libcalls[1].windowBits = thr[t].windowBits
        /\ thr[t].pc = "cast" => thr[t].libcalls = <<>>

C9_Witness ==
    \E t, u \in Threads :
        /\ Returned(t)
        /\ thr[t].windowBits = -15
        /\ thr[t].libcalls[1].windowBits = -15
        /\ thr[u].pc = "cast"
        /\ thr[u].libcalls = <<>>

====
